---- MODULE Spec2Model ----
(***************************************************************************)
(* Workflow execution engine of idkit-js (app/flow): FlowExecutor.         *)
(*                                                                         *)
(* One run of FlowExecutor.execute is modelled as the main coroutine       *)
(* (execute -> executeSequential / executeParallel), cut at its await      *)
(* points, together with the completion callbacks of the promises that     *)
(* executeParallel registers.  The step executor (executeStepByType) is an *)
(* awaited asynchronous call: its outcome is computed from the step type   *)
(* as the code does, the moment at which its promise settles is chosen by  *)
(* the environment.  Date.now() is the variable now, which never decreases.*)
(***************************************************************************)
EXTENDS Integers, Sequences, FiniteSets, TLC

VARIABLES
    options,         \* FlowExecutor.options: continueOnError, parallel, timeout
    steps,           \* workflow.steps of the run
    now,             \* Date.now() - context.startTime
    pc,              \* position of the main coroutine
    idx,             \* executeSequential: index of the for-of loop
    awaited,         \* executeSequential: the promise of executeStep being awaited
    pending,         \* executeParallel: Set of step ids not yet started
    executing,       \* executeParallel: Map step id -> promise of its StepResult
    ready,           \* executeParallel: ready ids of this round still to start
    readyLength,     \* executeParallel: ready.length of this round
    settled,         \* executeParallel: a promise of the awaited race has settled
    completedSteps,  \* context.completedSteps: Map step id -> StepResult
    completedOrder,  \* insertion order of the keys of context.completedSteps
    errors,          \* execute: the errors array
    unhandled,       \* errors thrown inside a completion callback (rejections nobody handles)
    returned,        \* execute has returned its WorkflowResult
    success,         \* WorkflowResult.success
    started,         \* history: step ids in the order executeStep was called
    invoked,         \* history: step ids for which executeStepByType was called
    timeoutSeen,     \* history: some executeStep found elapsed > timeout
    workflow,        \* FlowValidator: the Workflow handed to validate / canExecute
    validation,      \* FlowValidator.validate: the ValidationResult returned
    executable,      \* FlowValidator.canExecute: the answer returned
    vpc,             \* FlowValidator: which call has returned
    builder,         \* WorkflowBuilder: steps (array reference), workflowName, workflowDescription
    heap,            \* the WorkflowStep[] arrays, by reference
    built,           \* the Workflows returned by WorkflowBuilder.build(), oldest first
    lastAdded,       \* history: the adder called last and the step list it found
    preflight,       \* WorkflowBuilder.validate(): its result, when it is the call made last
    outcome,         \* Workflow.execute(): its WorkflowResult, when it is the call made last
    run,             \* which call of execute the engine variables belong to
    writer,          \* history: the call that wrote each entry of context.completedSteps
    suspended        \* the other call of execute: its variables while it does not run

engineVars == <<options, steps, now, pc, idx, awaited, pending, executing, ready,
                readyLength, settled, completedSteps, completedOrder, errors,
                unhandled, returned, success, started, invoked, timeoutSeen>>

validatorVars == <<workflow, validation, executable, vpc>>

builderVars == <<builder, heap, built, lastAdded, preflight, outcome>>

runsVars == <<run, writer, suspended>>

vars == <<engineVars, validatorVars, builderVars, runsVars>>

----------------------------------------------------------------------------
(* Bounds *)

MaxClock == 2

\* steps of a generated workflow, entries of a generated dependency list
MaxSteps == 2
MaxDeps == 2

\* add-step calls on one builder, entries of the dependency list of a custom
\* step, build() calls on one builder
MaxBuilderSteps == 3
MaxCustomDeps == 1
MaxBuilds == 2

----------------------------------------------------------------------------
(* Workflows handed to the engine *)

KnownTypes == {"analysis", "fix", "test", "deploy", "custom"}

TypeChoices == {"analysis", "plugin"}

Node(id, deps) == [id |-> id, dependencies |-> deps]

Diamond  == <<Node("A", <<>>), Node("B", <<"A">>), Node("C", <<"A">>), Node("D", <<"B", "C">>)>>
Chain    == <<Node("A", <<>>), Node("B", <<"A">>), Node("C", <<"B">>)>>
Independent == <<Node("A", <<>>), Node("B", <<>>), Node("C", <<>>)>>
Fork     == <<Node("A", <<>>), Node("B", <<>>), Node("C", <<"B">>)>>
Cycle    == <<Node("A", <<"C">>), Node("B", <<"A">>), Node("C", <<"B">>)>>
Dangling == <<Node("A", <<>>), Node("B", <<"X">>)>>
Forward  == <<Node("B", <<"A">>), Node("A", <<>>)>>
SelfLoop == <<Node("A", <<"A">>)>>
NoSteps  == <<>>

Shapes == {Diamond, Chain, Independent, Fork, Cycle, Dangling, Forward, SelfLoop, NoSteps}

WithTypes(shape) ==
    { [i \in 1..Len(shape) |->
          [id |-> shape[i].id, type |-> t[i], dependencies |-> shape[i].dependencies]]
      : t \in [1..Len(shape) -> TypeChoices] }

Workflows == UNION { WithTypes(shape) : shape \in Shapes }

ShapeOf(wf) == [i \in 1..Len(wf) |-> Node(wf[i].id, wf[i].dependencies)]

----------------------------------------------------------------------------
(* Helpers *)

Range(s) == { s[i] : i \in 1..Len(s) }

StepIds(wf) == { wf[i].id : i \in 1..Len(wf) }

\* steps.find(s => s.id === stepId)
Find(wf, stepId) ==
    wf[CHOOSE i \in 1..Len(wf) :
          /\ wf[i].id = stepId
          /\ \A j \in 1..(i - 1) : wf[j].id # stepId]

\* Map.set: a new key goes last, an existing key keeps its place
MapSet(m, k, v) == [x \in (DOMAIN m) \cup {k} |-> IF x = k THEN v ELSE m[x]]

MapDeleteNothing(m, k) == m

MapDelete(m, k) == [x \in (DOMAIN m) \ {k} |-> m[x]]

KeyOrderSet(order, k) == IF k \in Range(order) THEN order ELSE Append(order, k)

EmptyMap == [x \in {} |-> TRUE]

StepFailedError(id)  == [message |-> "Step failed", step |-> id]
DepsNotMetError(id)  == [message |-> "Dependencies not met for step", step |-> id]
DeadlockError        == [message |-> "Deadlock detected: steps have unmet dependencies", step |-> "-"]
TimeoutError         == [message |-> "Workflow execution timeout", step |-> "-"]

----------------------------------------------------------------------------
(* Pure parts of FlowExecutor *)

dependenciesMetSome(step, completed) ==
    \/ Len(step.dependencies) = 0
    \/ \E i \in 1..Len(step.dependencies) :
        /\ step.dependencies[i] \in DOMAIN completed
        /\ completed[step.dependencies[i]].success

dependenciesMetIgnored(step, completed) == TRUE

dependenciesMetAnyResult(step, completed) ==
    \A i \in 1..Len(step.dependencies) :
        step.dependencies[i] \in DOMAIN completed

dependenciesMetUnlessFailed(step, completed) ==
    \A i \in 1..Len(step.dependencies) :
        \/ step.dependencies[i] \notin DOMAIN completed
        \/ completed[step.dependencies[i]].success

dependenciesMet(step, completed) ==
    \A i \in 1..Len(step.dependencies) :
        /\ step.dependencies[i] \in DOMAIN completed
        /\ completed[step.dependencies[i]].success

allStepsSucceededIgnored(results) == TRUE

allStepsSucceeded(results) ==
    \A id \in DOMAIN results : results[id].success

\* executeStepByType: "ok" when the switch has a case for the type, otherwise it throws
executeStepByType(step) ==
    IF step.type \in KnownTypes THEN "ok" ELSE "Unknown step type"

TimeoutExceededOnlyAtFirstTick(elapsed, timeout) == elapsed = timeout + 1

\* the check `elapsed > this.options.timeout`
TimeoutExceeded(elapsed, timeout) == elapsed > timeout

\* executeStep: the StepResult its promise resolves to.  Both the timeout
\* error and the error of executeStepByType are caught by its own catch.
executeStep(step, elapsed, timeout) ==
    IF TimeoutExceeded(elapsed, timeout)
    THEN [stepId |-> step.id, success |-> FALSE, error |-> "Workflow execution timeout"]
    ELSE IF executeStepByType(step) = "ok"
         THEN [stepId |-> step.id, success |-> TRUE, error |-> "none"]
         ELSE [stepId |-> step.id, success |-> FALSE, error |-> executeStepByType(step)]

\* Array.from(pending).filter(...): pending keeps the order of steps.map(s => s.id)
RECURSIVE ReadySteps(_, _, _, _)
RECURSIVE ReadyStepsIgnoringPending(_, _, _, _)
RECURSIVE ReadyStepsOnlyFirst(_, _, _, _)
ReadyStepsOnlyFirst(wf, i, pend, completed) ==
    IF i > Len(wf) THEN <<>>
    ELSE IF wf[i].id \in pend /\ dependenciesMet(Find(wf, wf[i].id), completed)
         THEN <<wf[i].id>>
         ELSE ReadyStepsOnlyFirst(wf, i + 1, pend, completed)

ReadyStepsIgnoringPending(wf, i, pend, completed) ==
    IF i > Len(wf) THEN <<>>
    ELSE (IF dependenciesMet(wf[i], completed) THEN <<wf[i].id>> ELSE <<>>)
         \o ReadyStepsIgnoringPending(wf, i + 1, pend, completed)

ReadySteps(wf, i, pend, completed) ==
    IF i > Len(wf) THEN <<>>
    ELSE LET id   == wf[i].id
             rest == ReadySteps(wf, i + 1, pend \ {id}, completed)
         IN  IF id \in pend /\ dependenciesMet(Find(wf, id), completed)
             THEN <<id>> \o rest
             ELSE rest

----------------------------------------------------------------------------
(* Construction *)

\* a FlowExecutor after its constructor
EngineNew(opts) ==
    /\ options = opts
    /\ steps = <<>>
    /\ now = 0
    /\ pc = "new"
    /\ idx = 1
    /\ awaited = <<>>
    /\ pending = {}
    /\ executing = EmptyMap
    /\ ready = <<>>
    /\ readyLength = 0
    /\ settled = FALSE
    /\ completedSteps = EmptyMap
    /\ completedOrder = <<>>
    /\ errors = <<>>
    /\ unhandled = <<>>
    /\ returned = FALSE
    /\ success = FALSE
    /\ started = <<>>
    /\ invoked = {}
    /\ timeoutSeen = FALSE

ExecutionOptions == [continueOnError : BOOLEAN, parallel : BOOLEAN, timeout : 0..MaxClock]

\* the constructor defaults, with the default timeout never reached
DefaultOptions == [continueOnError |-> FALSE, parallel |-> FALSE, timeout |-> MaxClock]

Undefined == "undefined"

NoWorkflow == [id |-> "", name |-> "", description |-> Undefined, steps |-> <<>>]

NoValidation == [valid |-> FALSE, errors |-> <<>>, warnings |-> <<>>]

NoAnswer == [executable |-> FALSE, reason |-> Undefined]

\* the last call on the builder was not validate()
NoPreflight == [called |-> FALSE, valid |-> FALSE, errors |-> <<>>]

NoOutcome == [called |-> FALSE]

\* no FlowValidator call has been made
ValidatorIdle ==
    /\ workflow = NoWorkflow
    /\ validation = NoValidation
    /\ executable = NoAnswer
    /\ vpc = "idle"

\* a WorkflowBuilder after its constructor: this.steps = [] is array 1 of the heap
BuilderNew(name) ==
    /\ builder = [steps |-> 1, workflowId |-> "workflow_0", workflowName |-> name,
                  workflowDescription |-> Undefined]
    /\ heap = << <<>> >>
    /\ built = <<>>
    /\ lastAdded = [adder |-> "none", found |-> <<>>]
    /\ preflight = NoPreflight
    /\ outcome = NoOutcome

BuilderIdle == BuilderNew("Unnamed Workflow")

NoRun == [run |-> 0]

\* execute is called once at most: there is no other call
RunsIdle ==
    /\ run = 1
    /\ writer = EmptyMap
    /\ suspended = NoRun

Init ==
    /\ \E opts \in ExecutionOptions : EngineNew(opts)
    /\ ValidatorIdle
    /\ BuilderIdle
    /\ RunsIdle

----------------------------------------------------------------------------
(* execute: entry *)

ExecuteOn(workflows) ==
    /\ pc = "new"
    /\ \E wf \in workflows : steps' = wf
    /\ pending' = IF options.parallel THEN StepIds(steps') ELSE {}
    /\ pc' = IF options.parallel THEN "loop" ELSE "seq"
    /\ UNCHANGED <<options, now, idx, awaited, executing, ready, readyLength,
                   settled, completedSteps, completedOrder, errors, unhandled,
                   returned, success, started, invoked, timeoutSeen>>
    /\ UNCHANGED <<validatorVars, builderVars, runsVars>>

\* Date.now() advances
Tick ==
    /\ pc # "new"
    /\ ~returned
    /\ now < MaxClock
    /\ now' = now + 1
    /\ UNCHANGED <<options, steps, pc, idx, awaited, pending, executing, ready,
                   readyLength, settled, completedSteps, completedOrder, errors,
                   unhandled, returned, success, started, invoked, timeoutSeen>>
    /\ UNCHANGED <<validatorVars, builderVars, runsVars>>

Execute == ExecuteOn(Workflows)

----------------------------------------------------------------------------
(* executeSequential *)

CurrentStepReversed(wf, i) == wf[Len(wf) + 1 - i]

\* `for (const step of steps)`: the step of the i-th iteration
CurrentStep(wf, i) == wf[i]

\* loop head, dependency check and the call of executeStep up to its await
SeqStep ==
    /\ pc = "seq"
    /\ IF idx > Len(steps)
       THEN /\ pc' = "finish"
            /\ UNCHANGED <<awaited, errors, started, invoked, timeoutSeen>>
       ELSE IF ~dependenciesMet(CurrentStep(steps, idx), completedSteps)
       THEN /\ errors' = Append(errors, DepsNotMetError(CurrentStep(steps, idx).id))
            /\ pc' = "finish"
            /\ UNCHANGED <<awaited, started, invoked, timeoutSeen>>
       ELSE /\ awaited' = <<executeStep(CurrentStep(steps, idx), now, options.timeout)>>
            /\ started' = Append(started, CurrentStep(steps, idx).id)
            /\ invoked' = IF TimeoutExceeded(now, options.timeout)
                          THEN invoked ELSE invoked \cup {CurrentStep(steps, idx).id}
            /\ timeoutSeen' = (timeoutSeen \/ TimeoutExceeded(now, options.timeout))
            /\ pc' = "seqAwait"
            /\ UNCHANGED errors
    /\ UNCHANGED <<options, steps, now, idx, pending, executing, ready, readyLength,
                   settled, completedSteps, completedOrder, unhandled, returned, success>>
    /\ UNCHANGED <<validatorVars, builderVars, runsVars>>

\* the awaited executeStep resolves: record the result, decide whether to go on
SeqRecord ==
    /\ pc = "seqAwait"
    /\ LET result == awaited[1] IN
       /\ completedSteps' = MapSet(completedSteps, CurrentStep(steps, idx).id, result)
       /\ completedOrder' = KeyOrderSet(completedOrder, CurrentStep(steps, idx).id)
       /\ writer' = MapSet(writer, CurrentStep(steps, idx).id, run)
       /\ awaited' = <<>>
       /\ IF ~result.success /\ ~options.continueOnError
          THEN /\ errors' = Append(errors, StepFailedError(CurrentStep(steps, idx).id))
               /\ pc' = "finish"
               /\ UNCHANGED idx
          ELSE /\ idx' = idx + 1
               /\ pc' = "seq"
               /\ UNCHANGED errors
    /\ UNCHANGED <<options, steps, now, pending, executing, ready, readyLength,
                   settled, unhandled, returned, success, started, invoked, timeoutSeen>>
    /\ UNCHANGED <<validatorVars, builderVars, run, suspended>>

----------------------------------------------------------------------------
(* executeParallel *)

LoopContinuesWhileExecuting(pend, exec) == DOMAIN exec # {}

LoopContinuesWhilePending(pend, exec) == pend # {}

\* the condition `pending.size > 0 || executing.size > 0` of the while loop
LoopContinues(pend, exec) == pend # {} \/ DOMAIN exec # {}

\* while condition and the computation of `ready`
ParRound ==
    /\ pc = "loop"
    /\ IF ~LoopContinues(pending, executing)
       THEN /\ pc' = "finish"
            /\ UNCHANGED <<ready, readyLength>>
       ELSE /\ ready' = ReadySteps(steps, 1, pending, completedSteps)
            /\ readyLength' = Len(ready')
            /\ pc' = "start"
    /\ UNCHANGED <<options, steps, now, idx, awaited, pending, executing, settled,
                   completedSteps, completedOrder, errors, unhandled, returned,
                   success, started, invoked, timeoutSeen>>
    /\ UNCHANGED <<validatorVars, builderVars, runsVars>>

\* one iteration of `for (const stepId of ready)`: executeStep runs up to its await
ParStart ==
    /\ pc = "start"
    /\ ready # <<>>
    /\ LET stepId == Head(ready)
           step   == Find(steps, stepId)
       IN  /\ pending' = pending \ {stepId}
           /\ executing' = MapSet(executing, stepId, executeStep(step, now, options.timeout))
           /\ started' = Append(started, stepId)
           /\ invoked' = IF TimeoutExceeded(now, options.timeout)
                         THEN invoked ELSE invoked \cup {stepId}
           /\ timeoutSeen' = (timeoutSeen \/ TimeoutExceeded(now, options.timeout))
    /\ ready' = Tail(ready)
    /\ UNCHANGED <<options, steps, now, pc, idx, awaited, readyLength, settled,
                   completedSteps, completedOrder, errors, unhandled, returned, success>>
    /\ UNCHANGED <<validatorVars, builderVars, runsVars>>

DeadlockDetectedNever(len, exec, pend) == FALSE

\* the check `ready.length === 0 && executing.size === 0 && pending.size > 0`
DeadlockDetected(len, exec, pend) ==
    len = 0 /\ DOMAIN exec = {} /\ pend # {}

\* after the for loop: await Promise.race(...) when something is in flight,
\* otherwise go on to the deadlock check at once
ParAwait ==
    /\ pc = "start"
    /\ ready = <<>>
    /\ IF DOMAIN executing # {}
       THEN /\ pc' = "await"
            /\ settled' = FALSE
            /\ UNCHANGED errors
       ELSE /\ UNCHANGED settled
            /\ IF DeadlockDetected(readyLength, executing, pending)
               THEN /\ errors' = Append(errors, DeadlockError)
                    /\ pc' = "finish"
               ELSE /\ pc' = "loop"
                    /\ UNCHANGED errors
    /\ UNCHANGED <<options, steps, now, idx, awaited, pending, executing, ready,
                   readyLength, completedSteps, completedOrder, unhandled, returned,
                   success, started, invoked, timeoutSeen>>
    /\ UNCHANGED <<validatorVars, builderVars, runsVars>>

\* the promise of an in-flight step settles and its `then` callback runs;
\* the throw of the callback rejects a promise nobody holds
ParComplete(stepId) ==
    /\ pc = "await"
    /\ stepId \in DOMAIN executing
    /\ LET result == executing[stepId] IN
       /\ completedSteps' = MapSet(completedSteps, stepId, result)
       /\ completedOrder' = KeyOrderSet(completedOrder, stepId)
       /\ writer' = MapSet(writer, stepId, run)
       /\ executing' = MapDelete(executing, stepId)
       /\ unhandled' = IF ~result.success /\ ~options.continueOnError
                       THEN Append(unhandled, StepFailedError(stepId))
                       ELSE unhandled
    /\ settled' = TRUE
    /\ UNCHANGED <<options, steps, now, pc, idx, awaited, pending, ready, readyLength,
                   errors, returned, success, started, invoked, timeoutSeen>>
    /\ UNCHANGED <<validatorVars, builderVars, run, suspended>>

\* the race has settled: the loop resumes with the deadlock check
ParResume ==
    /\ pc = "await"
    /\ settled
    /\ IF DeadlockDetected(readyLength, executing, pending)
       THEN /\ errors' = Append(errors, DeadlockError)
            /\ pc' = "finish"
       ELSE /\ pc' = "loop"
            /\ UNCHANGED errors
    /\ UNCHANGED <<options, steps, now, idx, awaited, pending, executing, ready,
                   readyLength, settled, completedSteps, completedOrder, unhandled,
                   returned, success, started, invoked, timeoutSeen>>
    /\ UNCHANGED <<validatorVars, builderVars, runsVars>>

----------------------------------------------------------------------------
(* execute: exit *)

\* the WorkflowResult is built and returned
Return ==
    /\ pc = "finish"
    /\ success' = (Len(errors) = 0 /\ allStepsSucceeded(completedSteps))
    /\ returned' = TRUE
    /\ pc' = "done"
    /\ UNCHANGED <<options, steps, now, idx, awaited, pending, executing, ready,
                   readyLength, settled, completedSteps, completedOrder, errors,
                   unhandled, started, invoked, timeoutSeen>>
    /\ UNCHANGED <<validatorVars, builderVars, runsVars>>

Next ==
    \/ Execute
    \/ Tick
    \/ SeqStep
    \/ SeqRecord
    \/ ParRound
    \/ ParStart
    \/ ParAwait
    \/ \E stepId \in DOMAIN executing : ParComplete(stepId)
    \/ ParResume
    \/ Return

Spec == Init /\ [][Next]_vars

\* the main coroutine runs whenever it can, and the promise of every step
\* that was started settles
Fairness ==
    /\ WF_vars(SeqStep)
    /\ WF_vars(SeqRecord)
    /\ WF_vars(ParRound)
    /\ WF_vars(ParStart)
    /\ WF_vars(ParAwait)
    /\ WF_vars(\E stepId \in DOMAIN executing : ParComplete(stepId))
    /\ WF_vars(ParResume)
    /\ WF_vars(Return)

FairSpec == Init /\ [][Next]_vars /\ Fairness

----------------------------------------------------------------------------
(* Two calls of execute: one after the other, or the second while the first
   waits at an await *)

\* the variables of the call that runs
ThisRun ==
    [options |-> options, steps |-> steps, now |-> now, pc |-> pc, idx |-> idx,
     awaited |-> awaited, pending |-> pending, executing |-> executing, ready |-> ready,
     readyLength |-> readyLength, settled |-> settled, completedSteps |-> completedSteps,
     completedOrder |-> completedOrder, errors |-> errors, unhandled |-> unhandled,
     returned |-> returned, success |-> success, started |-> started, invoked |-> invoked,
     timeoutSeen |-> timeoutSeen, run |-> run, writer |-> writer]

\* the call r runs from now on
Resume(r) ==
    /\ options' = r.options
    /\ steps' = r.steps
    /\ now' = r.now
    /\ pc' = r.pc
    /\ idx' = r.idx
    /\ awaited' = r.awaited
    /\ pending' = r.pending
    /\ executing' = r.executing
    /\ ready' = r.ready
    /\ readyLength' = r.readyLength
    /\ settled' = r.settled
    /\ completedSteps' = r.completedSteps
    /\ completedOrder' = r.completedOrder
    /\ errors' = r.errors
    /\ unhandled' = r.unhandled
    /\ returned' = r.returned
    /\ success' = r.success
    /\ started' = r.started
    /\ invoked' = r.invoked
    /\ timeoutSeen' = r.timeoutSeen
    /\ run' = r.run
    /\ writer' = r.writer

FreshRunKeepingResults(opts, n) ==
    [ThisRun EXCEPT !.options = opts, !.run = n, !.steps = <<>>, !.now = 0, !.pc = "new",
                    !.idx = 1, !.awaited = <<>>, !.pending = {}, !.executing = EmptyMap,
                    !.ready = <<>>, !.readyLength = 0, !.settled = FALSE, !.errors = <<>>,
                    !.unhandled = <<>>, !.returned = FALSE, !.success = FALSE,
                    !.started = <<>>, !.invoked = {}, !.timeoutSeen = FALSE]

\* what a call of execute creates for itself: the context with a new Map
\* and a new start time, the errors array, and the locals of executeParallel
FreshRun(opts, n) ==
    [options |-> opts, steps |-> <<>>, now |-> 0, pc |-> "new", idx |-> 1,
     awaited |-> <<>>, pending |-> {}, executing |-> EmptyMap, ready |-> <<>>,
     readyLength |-> 0, settled |-> FALSE, completedSteps |-> EmptyMap,
     completedOrder |-> <<>>, errors |-> <<>>, unhandled |-> <<>>,
     returned |-> FALSE, success |-> FALSE, started |-> <<>>, invoked |-> {},
     timeoutSeen |-> FALSE, run |-> n, writer |-> EmptyMap]

\* execute up to the call of executeSequential / executeParallel
Entered(r, wf) ==
    [r EXCEPT !.steps = wf,
              !.pending = IF r.options.parallel THEN StepIds(wf) ELSE {},
              !.pc = IF r.options.parallel THEN "loop" ELSE "seq"]

\* where the main coroutine of a call has given up control
AwaitPoints == {"seqAwait", "await", "done"}

\* the executors and workflows of the two calls: no timeout is reached
RunOptions == { opts \in ExecutionOptions : opts.timeout = MaxClock }

RunWorkflows ==
    { wf \in WithTypes(Chain) \cup WithTypes(Fork) :
        wf[1].type = "analysis" /\ wf[3].type = "analysis" }

RunsInit ==
    /\ \E opts \in RunOptions : EngineNew(opts)
    /\ ValidatorIdle
    /\ BuilderIdle
    /\ RunsIdle

\* a second call of execute, on this executor or on another one, made
\* after the first has returned or while it waits
ExecuteMeanwhile ==
    /\ pc \in AwaitPoints
    /\ suspended = NoRun
    /\ suspended' = ThisRun
    /\ \E opts \in {options} \cup RunOptions, wf \in RunWorkflows :
          Resume(Entered(FreshRun(opts, run + 1), wf))
    /\ UNCHANGED <<validatorVars, builderVars>>

\* the event loop gives control to the other call
Switch ==
    /\ pc \in AwaitPoints
    /\ suspended # NoRun
    /\ suspended' = ThisRun
    /\ Resume(suspended)
    /\ UNCHANGED <<validatorVars, builderVars>>

RunsNext ==
    \/ ExecuteOn(RunWorkflows)
    \/ Tick
    \/ SeqStep
    \/ SeqRecord
    \/ ParRound
    \/ ParStart
    \/ ParAwait
    \/ \E stepId \in DOMAIN executing : ParComplete(stepId)
    \/ ParResume
    \/ Return
    \/ ExecuteMeanwhile
    \/ Switch

RunsSpec == RunsInit /\ [][RunsNext]_vars

----------------------------------------------------------------------------
(* FlowValidator: pure parts *)

\* String.prototype.trim on the names the model uses
Trim(str) == IF str = " " THEN "" ELSE str

ValidationError(code, message, stepId, detail) ==
    [code |-> code, message |-> message, stepId |-> stepId, detail |-> detail,
     severity |-> "error"]

ValidationWarning(code, message, stepId) ==
    [code |-> code, message |-> message, stepId |-> stepId, severity |-> "warning"]

DepExistsBeforeLast(allSteps, depId) ==
    \E i \in 1..(Len(allSteps) - 1) : allSteps[i].id = depId

\* allSteps.some(s => s.id === depId)
DepExists(allSteps, depId) == \E i \in 1..Len(allSteps) : allSteps[i].id = depId

\* the loop over step.dependencies of validateStep, from entry i on
RECURSIVE DependencyErrors(_, _, _)
DependencyErrors(step, allSteps, i) ==
    IF i > Len(step.dependencies) THEN <<>>
    ELSE (IF ~DepExists(allSteps, step.dependencies[i])
          THEN <<ValidationError("INVALID_DEPENDENCY", "Step depends on non-existent step",
                                 step.id, <<step.dependencies[i]>>)>>
          ELSE <<>>)
         \o DependencyErrors(step, allSteps, i + 1)

validateStepFirstErrorOnly(step, allSteps) ==
    LET errs == (IF step.id = ""
                 THEN <<ValidationError("MISSING_STEP_ID", "Step must have an ID", step.id, <<>>)>>
                 ELSE IF step.name = "" \/ Trim(step.name) = ""
                 THEN <<ValidationError("MISSING_STEP_NAME", "Step must have a name", step.id, <<>>)>>
                 ELSE IF step.type = ""
                 THEN <<ValidationError("MISSING_STEP_TYPE", "Step must have a type", step.id, <<>>)>>
                 ELSE IF Len(DependencyErrors(step, allSteps, 1)) > 0
                 THEN <<DependencyErrors(step, allSteps, 1)[1]>>
                 ELSE <<>>)
        warns == IF step.config = Undefined
                 THEN <<ValidationWarning("NO_CONFIG", "Step has no configuration", step.id)>>
                 ELSE <<>>
    IN  [valid |-> Len(errs) = 0, errors |-> errs, warnings |-> warns]

validateStep(step, allSteps) ==
    LET errs ==
            (IF step.id = ""
             THEN <<ValidationError("MISSING_STEP_ID", "Step must have an ID", step.id, <<>>)>>
             ELSE <<>>)
         \o (IF step.name = "" \/ Trim(step.name) = ""
             THEN <<ValidationError("MISSING_STEP_NAME", "Step must have a name", step.id, <<>>)>>
             ELSE <<>>)
         \o (IF step.type = ""
             THEN <<ValidationError("MISSING_STEP_TYPE", "Step must have a type", step.id, <<>>)>>
             ELSE <<>>)
         \o DependencyErrors(step, allSteps, 1)
        warns ==
            IF step.config = Undefined
            THEN <<ValidationWarning("NO_CONFIG", "Step has no configuration", step.id)>>
            ELSE <<>>
    IN  [valid |-> Len(errs) = 0, errors |-> errs, warnings |-> warns]

\* graph.set(step.id, step.dependencies) for every step: the last step of an id wins
GraphOf(allSteps) ==
    [id \in { allSteps[i].id : i \in 1..Len(allSteps) } |->
        allSteps[CHOOSE i \in 1..Len(allSteps) :
                    /\ allSteps[i].id = id
                    /\ \A j \in (i + 1)..Len(allSteps) : allSteps[j].id # id].dependencies]

\* Array.prototype.indexOf, 0-based, -1 when absent
IndexOf(arr, x) ==
    IF \E i \in 1..Len(arr) : arr[i] = x
    THEN (CHOOSE i \in 1..Len(arr) : arr[i] = x /\ \A j \in 1..(i - 1) : arr[j] # x) - 1
    ELSE -1

\* Array.prototype.slice(start): a negative start counts from the end
Slice(arr, start) ==
    LET from == IF start >= 0 THEN start
                ELSE IF Len(arr) + start > 0 THEN Len(arr) + start ELSE 0
    IN  SubSeq(arr, from + 1, Len(arr))

\* the closure dfs of detectCircularDependencies; st holds visited,
\* recursionStack, the shared path array and cycles, and entered, the ids in
\* the order dfs was called on them
RECURSIVE dfs(_, _, _)
RECURSIVE dfsNeighbors(_, _, _, _)

dfsNeighbors(graph, neighbors, i, st) ==
    IF i > Len(neighbors) THEN [st |-> st, found |-> FALSE]
    ELSE LET neighbor == neighbors[i] IN
         IF neighbor \notin st.visited
         THEN LET r == dfs(graph, neighbor, st) IN
              IF r.found THEN r ELSE dfsNeighbors(graph, neighbors, i + 1, r.st)
         ELSE IF neighbor \in st.recursionStack
         THEN LET cycleStart == IndexOf(st.path, neighbor)
                  cycle      == Slice(st.path, cycleStart)
              IN  [st |-> [st EXCEPT !.cycles = Append(@, cycle)], found |-> TRUE]
         ELSE dfsNeighbors(graph, neighbors, i + 1, st)

dfsKeepsRecursionStack(graph, nodeId, st) ==
    LET entered   == [st EXCEPT !.visited = @ \cup {nodeId},
                                !.recursionStack = @ \cup {nodeId},
                                !.path = Append(@, nodeId),
                                !.entered = Append(@, nodeId)]
        neighbors == IF nodeId \in DOMAIN graph THEN graph[nodeId] ELSE <<>>
        r         == dfsNeighbors(graph, neighbors, 1, entered)
    IN  IF r.found THEN r
        ELSE [st |-> [r.st EXCEPT !.path = SubSeq(@, 1, Len(@) - 1)],
              found |-> FALSE]

dfs(graph, nodeId, st) ==
    LET entered   == [st EXCEPT !.visited = @ \cup {nodeId},
                                !.recursionStack = @ \cup {nodeId},
                                !.path = Append(@, nodeId),
                                !.entered = Append(@, nodeId)]
        neighbors == IF nodeId \in DOMAIN graph THEN graph[nodeId] ELSE <<>>
        r         == dfsNeighbors(graph, neighbors, 1, entered)
    IN  IF r.found THEN r
        ELSE [st |-> [r.st EXCEPT !.recursionStack = @ \ {nodeId},
                                  !.path = SubSeq(@, 1, Len(@) - 1)],
              found |-> FALSE]

\* the loop `for (const step of steps) if (!visited.has(step.id)) dfs(step.id, [])`
RECURSIVE dfsFromEachStep(_, _, _, _)
dfsFromEachStep(allSteps, graph, i, st) ==
    IF i > Len(allSteps) THEN st
    ELSE IF allSteps[i].id \in st.visited
         THEN dfsFromEachStep(allSteps, graph, i + 1, st)
         ELSE dfsFromEachStep(allSteps, graph, i + 1,
                              dfs(graph, allSteps[i].id, [st EXCEPT !.path = <<>>]).st)

\* the traversal of detectCircularDependencies as a whole
validatorCycleSearch(allSteps) ==
    dfsFromEachStep(allSteps, GraphOf(allSteps), 1,
                    [visited |-> {}, recursionStack |-> {}, path |-> <<>>, cycles |-> <<>>,
                     entered |-> <<>>])

\* the cycles array returned, each cycle as the list of ids that is joined by ' -> '
detectCircularDependencies(allSteps) == validatorCycleSearch(allSteps).cycles

HasNoStepsNever(wf) == FALSE

\* the check `!workflow.steps || workflow.steps.length === 0`
HasNoSteps(wf) == Len(wf.steps) = 0

RECURSIVE StepValidations(_, _, _)
StepValidations(allSteps, i, field) ==
    IF i > Len(allSteps) THEN <<>>
    ELSE validateStep(allSteps[i], allSteps)[field] \o StepValidations(allSteps, i + 1, field)

validate(wf) ==
    LET circularDeps == detectCircularDependencies(wf.steps)
        errs ==
            (IF wf.id = ""
             THEN <<ValidationError("MISSING_ID", "Workflow must have an ID", Undefined, <<>>)>>
             ELSE <<>>)
         \o (IF wf.name = "" \/ Trim(wf.name) = ""
             THEN <<ValidationError("MISSING_NAME", "Workflow must have a name", Undefined, <<>>)>>
             ELSE <<>>)
         \o (IF HasNoSteps(wf)
             THEN <<ValidationError("NO_STEPS", "Workflow must have at least one step", Undefined, <<>>)>>
             ELSE <<>>)
         \o StepValidations(wf.steps, 1, "errors")
         \o (IF Len(circularDeps) > 0
             THEN <<ValidationError("CIRCULAR_DEPS", "Circular dependencies detected", Undefined,
                                    circularDeps)>>
             ELSE <<>>)
    IN  [valid |-> Len(errs) = 0, errors |-> errs,
         warnings |-> StepValidations(wf.steps, 1, "warnings")]

validTypes == {"analysis", "fix", "test", "deploy", "custom"}

TypeCheckSkipped(allSteps, i) == [executable |-> TRUE, reason |-> Undefined]

\* the loop over workflow.steps of canExecute, from step i on
RECURSIVE TypeCheck(_, _)
TypeCheck(allSteps, i) ==
    IF i > Len(allSteps) THEN [executable |-> TRUE, reason |-> Undefined]
    ELSE IF allSteps[i].type \notin validTypes
         THEN [executable |-> FALSE, reason |-> "Invalid step type"]
         ELSE TypeCheck(allSteps, i + 1)

canExecute(wf) ==
    LET v == validate(wf) IN
    IF ~v.valid
    THEN [executable |-> FALSE,
          reason |-> IF Len(v.errors) > 0 /\ v.errors[1].message # ""
                     THEN v.errors[1].message ELSE "Validation failed"]
    ELSE TypeCheck(wf.steps, 1)

----------------------------------------------------------------------------
(* FlowValidator: the workflows handed to it and its calls *)

\* `step_${n}`
StepIdNames == <<"step_1", "step_2", "step_3", "step_4", "step_5", "step_6">>
StepId(n) == StepIdNames[n]

SeqsUpTo(S, n) == UNION { [1..k -> S] : k \in 0..n }

FullStep(id, type, deps) ==
    [id |-> id, type |-> type, name |-> "Step", config |-> "{}", dependencies |-> deps]

\* n steps step_1 .. step_n; every dependency list over these ids and one id no step has
GeneratedSteps(n) ==
    { [i \in 1..n |-> FullStep(StepId(i), "custom", d[i])] :
        d \in [1..n -> SeqsUpTo({ StepId(k) : k \in 1..(n + 1) }, MaxDeps)] }

\* the engine's shapes, as full steps
ShapeSteps(shape) ==
    [i \in 1..Len(shape) |-> FullStep(shape[i].id, "custom", shape[i].dependencies)]

Defects == {"none", "workflow.id", "workflow.name", "workflow.name blank", "step.id",
            "step.name", "step.name blank", "step.type", "step.type unknown", "step.config"}

\* one field of the workflow, or of its first step, made empty or unknown
WithDefect(wf, defect) ==
    IF defect = "none" THEN wf
    ELSE IF defect = "workflow.id" THEN [wf EXCEPT !.id = ""]
    ELSE IF defect = "workflow.name" THEN [wf EXCEPT !.name = ""]
    ELSE IF defect = "workflow.name blank" THEN [wf EXCEPT !.name = " "]
    ELSE IF Len(wf.steps) = 0 THEN wf
    ELSE IF defect = "step.id" THEN [wf EXCEPT !.steps[1].id = ""]
    ELSE IF defect = "step.name" THEN [wf EXCEPT !.steps[1].name = ""]
    ELSE IF defect = "step.name blank" THEN [wf EXCEPT !.steps[1].name = " "]
    ELSE IF defect = "step.type" THEN [wf EXCEPT !.steps[1].type = ""]
    ELSE IF defect = "step.type unknown" THEN [wf EXCEPT !.steps[1].type = "plugin"]
    ELSE [wf EXCEPT !.steps[1].config = Undefined]

WorkflowOf(stepList) ==
    [id |-> "workflow_0", name |-> "Unnamed Workflow", description |-> Undefined,
     steps |-> stepList]

\* the workflows of up to maxSteps generated steps and the shapes, each with every defect
ValidatorInputs(maxSteps) ==
    { WithDefect(WorkflowOf(stepList), defect) :
        stepList \in (UNION { GeneratedSteps(n) : n \in 0..maxSteps })
                     \cup { ShapeSteps(shape) : shape \in Shapes },
        defect \in Defects }

ValidatorInit ==
    /\ EngineNew(DefaultOptions)
    /\ BuilderIdle
    /\ RunsIdle
    /\ workflow \in ValidatorInputs(MaxSteps)
    /\ validation = NoValidation
    /\ executable = NoAnswer
    /\ vpc = "input"

\* validator.validate(workflow)
Validate ==
    /\ vpc = "input"
    /\ validation' = validate(workflow)
    /\ vpc' = "validated"
    /\ UNCHANGED <<workflow, executable>>
    /\ UNCHANGED <<engineVars, builderVars, runsVars>>

\* validator.canExecute(workflow)
CanExecute ==
    /\ vpc = "validated"
    /\ executable' = canExecute(workflow)
    /\ vpc' = "checked"
    /\ UNCHANGED <<workflow, validation>>
    /\ UNCHANGED <<engineVars, builderVars, runsVars>>

ValidatorNext ==
    \/ Validate
    \/ CanExecute

ValidatorSpec == ValidatorInit /\ [][ValidatorNext]_vars

----------------------------------------------------------------------------
(* WorkflowBuilder *)

\* this.steps[this.steps.length - 1].id, '' for an empty list
PrevStepId(stepList) ==
    IF Len(stepList) > 0 THEN stepList[Len(stepList)].id ELSE ""

ChainOnUnconditional(prevStepId) == <<prevStepId>>

\* `prevStepId ? [prevStepId] : []`
ChainOn(prevStepId) == IF prevStepId # "" THEN <<prevStepId>> ELSE <<>>

BuilderStepFixedId(stepList, type, name, deps) ==
    [id |-> StepId(1), type |-> type, name |-> name, config |-> "{}",
     dependencies |-> deps]

BuilderStep(stepList, type, name, deps) ==
    [id |-> StepId(Len(stepList) + 1), type |-> type, name |-> name, config |-> "{}",
     dependencies |-> deps]

\* the four built-in adders and addCustomStep: the step list after the push
addAnalysisStep(stepList) ==
    Append(stepList, BuilderStep(stepList, "analysis", "Code Analysis", <<>>))

addAutoFixStep(stepList) ==
    Append(stepList, BuilderStep(stepList, "fix", "Auto Fix", ChainOn(PrevStepId(stepList))))

addTestStep(stepList) ==
    Append(stepList, BuilderStep(stepList, "test", "Run Tests", ChainOn(PrevStepId(stepList))))

addDeployStep(stepList) ==
    Append(stepList, BuilderStep(stepList, "deploy", "Deploy", ChainOn(PrevStepId(stepList))))

addCustomStep(stepList, name, dependencies) ==
    Append(stepList, BuilderStep(stepList, "custom", name, dependencies))

\* the closure hasCycle of WorkflowBuilder.validate; st holds visited and
\* recursionStack, and entered, the ids in the order hasCycle was called on them
RECURSIVE hasCycle(_, _, _)
RECURSIVE hasCycleDeps(_, _, _, _)

hasCycleDeps(stepList, deps, i, st) ==
    IF i > Len(deps) THEN [st |-> st, found |-> FALSE]
    ELSE LET depId == deps[i] IN
         IF depId \notin st.visited
         THEN LET r == hasCycle(stepList, depId, st) IN
              IF r.found THEN r ELSE hasCycleDeps(stepList, deps, i + 1, r.st)
         ELSE IF depId \in st.recursionStack
         THEN [st |-> st, found |-> TRUE]
         ELSE hasCycleDeps(stepList, deps, i + 1, st)

hasCycleNever(stepList, stepId, st) ==
    [st |-> [st EXCEPT !.visited = @ \cup {stepId}, !.entered = Append(@, stepId)],
     found |-> FALSE]

hasCycle(stepList, stepId, st) ==
    LET entered == [st EXCEPT !.visited = @ \cup {stepId},
                              !.recursionStack = @ \cup {stepId},
                              !.entered = Append(@, stepId)]
        deps    == IF stepId \in StepIds(stepList)
                   THEN Find(stepList, stepId).dependencies ELSE <<>>
        r       == hasCycleDeps(stepList, deps, 1, entered)
    IN  IF r.found THEN r
        ELSE [st |-> [r.st EXCEPT !.recursionStack = @ \ {stepId}], found |-> FALSE]

\* the loop over this.steps of WorkflowBuilder.validate, which stops at the first cycle
RECURSIVE hasCycleFromEachStep(_, _, _)
RECURSIVE hasCycleFromEachStepUnchecked(_, _, _)
hasCycleFromEachStepUnchecked(stepList, i, st) ==
    IF i > Len(stepList) THEN [st |-> st, found |-> FALSE]
    ELSE LET r == hasCycle(stepList, stepList[i].id, st) IN
         IF r.found THEN r ELSE hasCycleFromEachStepUnchecked(stepList, i + 1, r.st)

hasCycleFromEachStep(stepList, i, st) ==
    IF i > Len(stepList) THEN [st |-> st, found |-> FALSE]
    ELSE IF stepList[i].id \in st.visited
         THEN hasCycleFromEachStep(stepList, i + 1, st)
         ELSE LET r == hasCycle(stepList, stepList[i].id, st) IN
              IF r.found THEN r ELSE hasCycleFromEachStep(stepList, i + 1, r.st)

\* the traversal of WorkflowBuilder.validate as a whole
builderCycleSearch(stepList) ==
    hasCycleFromEachStep(stepList, 1, [visited |-> {}, recursionStack |-> {}, entered |-> <<>>])

\* WorkflowBuilder.validate(): valid and the error strings
builderValidate(stepList) ==
    LET errs == (IF Len(stepList) = 0
                 THEN <<"Workflow must have at least one step">> ELSE <<>>)
             \o (IF builderCycleSearch(stepList).found
                 THEN <<"Workflow contains circular dependencies">> ELSE <<>>)
    IN  [called |-> TRUE, valid |-> Len(errs) = 0, errors |-> errs]

buildSharingSteps(b, h) ==
    [workflow |-> [id |-> b.workflowId, name |-> b.workflowName,
                   description |-> b.workflowDescription, steps |-> b.steps],
     heap |-> h]

\* build(): `[...this.steps]` is a new array; id, name and description are copied
build(b, h) ==
    [workflow |-> [id |-> b.workflowId, name |-> b.workflowName,
                   description |-> b.workflowDescription, steps |-> Len(h) + 1],
     heap |-> Append(h, h[b.steps])]

\* the placeholder executeStep(step) of the builder module
executeStepPlaceholder(step) == [success |-> TRUE]

NoDependencyError == [message |-> "none", dependency |-> "-"]

\* new Error(`Dependency ${depId} failed or not completed`)
DependencyError(depId) ==
    [message |-> "Dependency failed or not completed", dependency |-> depId]

FailedDependencyNever(step, stepResults) == 0

FailedDependencyIgnoringMissing(step, stepResults) ==
    IF \A i \in 1..Len(step.dependencies) :
          \/ step.dependencies[i] \notin DOMAIN stepResults
          \/ stepResults[step.dependencies[i]].success
    THEN 0
    ELSE CHOOSE i \in 1..Len(step.dependencies) :
            /\ step.dependencies[i] \in DOMAIN stepResults
            /\ ~stepResults[step.dependencies[i]].success
            /\ \A j \in 1..(i - 1) :
                  \/ step.dependencies[j] \notin DOMAIN stepResults
                  \/ stepResults[step.dependencies[j]].success

\* the dependency loop of Workflow.execute: the index of the first dependency
\* whose StepResult is missing or unsuccessful, 0 when the loop ends normally
FailedDependency(step, stepResults) ==
    IF \A i \in 1..Len(step.dependencies) :
          /\ step.dependencies[i] \in DOMAIN stepResults
          /\ stepResults[step.dependencies[i]].success
    THEN 0
    ELSE CHOOSE i \in 1..Len(step.dependencies) :
            /\ \/ step.dependencies[i] \notin DOMAIN stepResults
               \/ ~stepResults[step.dependencies[i]].success
            /\ \A j \in 1..(i - 1) :
                  /\ step.dependencies[j] \in DOMAIN stepResults
                  /\ stepResults[step.dependencies[j]].success

\* the for-of loop of Workflow.execute from the i-th step on; acc holds
\* stepResults with its key order, errors, and executed, the ids of the
\* steps handed to executeStep
RECURSIVE workflowExecuteFrom(_, _, _)
workflowExecuteFrom(stepList, i, acc) ==
    IF i > Len(stepList) THEN acc
    ELSE LET step == stepList[i]
             k == FailedDependency(step, acc.stepResults)
         IN IF k # 0
            THEN workflowExecuteFrom(stepList, i + 1,
                    [acc EXCEPT
                       !.errors = Append(@, DependencyError(step.dependencies[k])),
                       !.stepResults = MapSet(@, step.id,
                            [stepId |-> step.id, success |-> FALSE,
                             output |-> "null",
                             error |-> DependencyError(step.dependencies[k])]),
                       !.order = KeyOrderSet(@, step.id)])
            ELSE workflowExecuteFrom(stepList, i + 1,
                    [acc EXCEPT
                       !.executed = Append(@, step.id),
                       !.stepResults = MapSet(@, step.id,
                            [stepId |-> step.id, success |-> TRUE,
                             output |-> executeStepPlaceholder(step),
                             error |-> NoDependencyError]),
                       !.order = KeyOrderSet(@, step.id)])

\* Workflow.execute of the workflow object build() returns
workflowExecute(stepList) ==
    LET end == workflowExecuteFrom(stepList, 1,
                   [stepResults |-> EmptyMap, order |-> <<>>, errors |-> <<>>,
                    executed |-> <<>>])
    IN [success |-> Len(end.errors) = 0, stepResults |-> end.stepResults,
        order |-> end.order, errors |-> end.errors, executed |-> end.executed]

BuilderSteps == heap[builder.steps]

BuilderNames == {"Unnamed Workflow", ""}

Descriptions == {"Release pipeline"}

CustomDependencies ==
    SeqsUpTo({ StepId(k) : k \in 1..(MaxBuilderSteps + 1) }, MaxCustomDeps)

BuilderInit ==
    /\ EngineNew(DefaultOptions)
    /\ ValidatorIdle
    /\ RunsIdle
    /\ \E name \in BuilderNames : BuilderNew(name)

\* this.steps.push(...) of an adder
Push(adder, stepList) ==
    /\ Len(BuilderSteps) < MaxBuilderSteps
    /\ heap' = [heap EXCEPT ![builder.steps] = stepList]
    /\ lastAdded' = [adder |-> adder, found |-> BuilderSteps]
    /\ preflight' = NoPreflight
    /\ outcome' = NoOutcome
    /\ UNCHANGED <<builder, built>>
    /\ UNCHANGED <<engineVars, validatorVars, runsVars>>

AddAnalysisStep == Push("addAnalysisStep", addAnalysisStep(BuilderSteps))

AddAutoFixStep == Push("addAutoFixStep", addAutoFixStep(BuilderSteps))

AddTestStep == Push("addTestStep", addTestStep(BuilderSteps))

AddDeployStep == Push("addDeployStep", addDeployStep(BuilderSteps))

AddCustomStep ==
    \E dependencies \in CustomDependencies :
        Push("addCustomStep", addCustomStep(BuilderSteps, "Custom", dependencies))

WithDescription ==
    /\ \E description \in Descriptions :
          /\ description # builder.workflowDescription
          /\ builder' = [builder EXCEPT !.workflowDescription = description]
    /\ preflight' = NoPreflight
    /\ outcome' = NoOutcome
    /\ UNCHANGED <<heap, built, lastAdded>>
    /\ UNCHANGED <<engineVars, validatorVars, runsVars>>

Build ==
    /\ Len(built) < MaxBuilds
    /\ built' = Append(built, build(builder, heap).workflow)
    /\ heap' = build(builder, heap).heap
    /\ preflight' = NoPreflight
    /\ outcome' = NoOutcome
    /\ UNCHANGED <<builder, lastAdded>>
    /\ UNCHANGED <<engineVars, validatorVars, runsVars>>

\* builder.validate()
BuilderValidate ==
    /\ preflight' = builderValidate(BuilderSteps)
    /\ outcome' = NoOutcome
    /\ UNCHANGED <<builder, heap, built, lastAdded>>
    /\ UNCHANGED <<engineVars, validatorVars, runsVars>>

\* workflow.execute() on a workflow that build() returned
WorkflowExecute ==
    /\ \E i \in 1..Len(built) :
          outcome' = [called |-> TRUE, workflow |-> i,
                      result |-> workflowExecute(heap[built[i].steps])]
    /\ preflight' = NoPreflight
    /\ UNCHANGED <<builder, heap, built, lastAdded>>
    /\ UNCHANGED <<engineVars, validatorVars, runsVars>>

BuilderNext ==
    \/ AddAnalysisStep
    \/ AddAutoFixStep
    \/ AddTestStep
    \/ AddDeployStep
    \/ AddCustomStep
    \/ WithDescription
    \/ Build
    \/ BuilderValidate
    \/ WorkflowExecute

BuilderSpec == BuilderInit /\ [][BuilderNext]_vars

----------------------------------------------------------------------------
(* Type correctness *)

StepResults ==
    [stepId : {"A", "B", "C", "D"}, success : BOOLEAN,
     error : {"none", "Workflow execution timeout", "Unknown step type"}]

TypeOK ==
    /\ now \in 0..MaxClock
    /\ pc \in {"new", "seq", "seqAwait", "loop", "start", "await", "finish", "done"}
    /\ pending \subseteq StepIds(steps)
    /\ DOMAIN executing \subseteq StepIds(steps)
    /\ DOMAIN completedSteps \subseteq StepIds(steps)
    /\ \A id \in DOMAIN completedSteps : completedSteps[id] \in StepResults
    /\ Len(awaited) <= 1
    /\ returned \in BOOLEAN /\ success \in BOOLEAN

----------------------------------------------------------------------------
(* Vocabulary of the properties *)

IdSeq(wf) == [i \in 1..Len(wf) |-> wf[i].id]

DepsOf(wf, id) ==
    UNION { Range(wf[i].dependencies) : i \in { j \in 1..Len(wf) : wf[j].id = id } }

\* ids reachable from the set S along dependency edges, in at most n hops
RECURSIVE DepClosure(_, _, _)
DepClosure(wf, S, n) ==
    IF n = 0 THEN S
    ELSE DepClosure(wf, S \cup UNION { DepsOf(wf, id) : id \in S }, n - 1)

Acyclic(wf) ==
    \A id \in StepIds(wf) : id \notin DepClosure(wf, DepsOf(wf, id), Len(wf))

NoDanglingDependency(wf) ==
    \A id \in StepIds(wf) : DepsOf(wf, id) \subseteq StepIds(wf)

AllTypesKnown(wf) == \A i \in 1..Len(wf) : wf[i].type \in KnownTypes

FailedIds == { id \in DOMAIN completedSteps : ~completedSteps[id].success }

\* every error raised by the run outside executeStep
RaisedErrors == Range(errors) \cup Range(unhandled)

\* the StepResult of a step whose executor call ran to its end
RealOutcome(step) ==
    IF step.type \in KnownTypes
    THEN [stepId |-> step.id, success |-> TRUE, error |-> "none"]
    ELSE [stepId |-> step.id, success |-> FALSE, error |-> "Unknown step type"]

----------------------------------------------------------------------------
(* Properties of FlowExecutor *)

\* C1: when execute has returned, every run-level error raised during the
\* run (step failed, dependencies not met, deadlock) is in the errors list
\* of the returned WorkflowResult.
ExecuteSurfacesEveryRunError ==
    returned => RaisedErrors \subseteq Range(errors)

\* C2: in a returned WorkflowResult, success is true exactly when the errors
\* list is empty and every recorded StepResult succeeded.
SuccessIffNoErrorAndAllSucceeded ==
    returned =>
        (success <=> (errors = <<>> /\ \A id \in DOMAIN completedSteps :
                                          completedSteps[id].success))

\* C2 witness: a sequential fail-fast run that attempted a prefix of the
\* steps, recorded one failure and is overall-failed.
FailFastPrefixReturned ==
    /\ returned
    /\ ~options.parallel
    /\ ~options.continueOnError
    /\ Len(completedOrder) < Len(steps)
    /\ Cardinality(FailedIds) = 1
    /\ ~success

\* C3: in parallel mode, whenever a step is started, each of its dependency
\* ids has a successful StepResult in the result map at that moment.
ParallelStartsOnlyAfterDependencies ==
    [][options.parallel =>
          \A id \in (DOMAIN executing') \ (DOMAIN executing) :
              \A dep \in DepsOf(steps, id) :
                  /\ dep \in DOMAIN completedSteps
                  /\ completedSteps[dep].success]_vars

\* C3 witness: D of the diamond is in flight in a parallel run.
DiamondJoinStarted ==
    /\ options.parallel
    /\ ShapeOf(steps) = Diamond
    /\ "D" \in DOMAIN executing
    /\ {"B", "C"} \subseteq DOMAIN completedSteps

\* C4: a returned parallel run of an acyclic workflow without dangling
\* dependency, whose steps all succeed and which met no timeout, has a
\* successful StepResult for every step, no error and success = true.
ParallelRunRecordsEveryStep ==
    (/\ returned
     /\ options.parallel
     /\ Acyclic(steps)
     /\ NoDanglingDependency(steps)
     /\ AllTypesKnown(steps)
     /\ ~timeoutSeen)
    => /\ DOMAIN completedSteps = StepIds(steps)
       /\ FailedIds = {}
       /\ errors = <<>>
       /\ success

\* C5: fail-fast on the chain A -> B -> C with A successful and B failed:
\* C is never started and has no entry, B is the only failure, and the
\* returned result holds exactly A and B and is overall-failed.
ChainFailFastSkipsC ==
    (/\ ShapeOf(steps) = Chain
     /\ ~options.continueOnError
     /\ {"A", "B"} \subseteq DOMAIN completedSteps
     /\ completedSteps["A"].success
     /\ ~completedSteps["B"].success)
    => /\ "C" \notin Range(started)
       /\ "C" \notin DOMAIN completedSteps
       /\ FailedIds = {"B"}
       /\ (returned => ~success /\ DOMAIN completedSteps = {"A", "B"})

\* C5 witness: such a run has returned in parallel mode.
ChainFailFastReturned ==
    /\ returned
    /\ options.parallel
    /\ ShapeOf(steps) = Chain
    /\ ~options.continueOnError
    /\ {"A", "B"} \subseteq DOMAIN completedSteps
    /\ completedSteps["A"].success
    /\ ~completedSteps["B"].success

\* C6: in sequential mode the steps are started in declaration order, a
\* step is started only when every step started before it is recorded, and
\* the results enter the map in declaration order.
SequentialDeclarationOrder ==
    ~options.parallel =>
        /\ Len(started) <= Len(steps)
        /\ started = SubSeq(IdSeq(steps), 1, Len(started))
        /\ Len(completedOrder) <= Len(started)
        /\ completedOrder = SubSeq(started, 1, Len(completedOrder))
        /\ Len(started) - Len(completedOrder) = Len(awaited)
        /\ Len(awaited) <= 1

\* C6 witness: the three independent steps were run sequentially.
SequentialThreeRecorded ==
    /\ returned
    /\ ~options.parallel
    /\ ShapeOf(steps) = Independent
    /\ completedOrder = <<"A", "B", "C">>

\* C7: in parallel mode without continueOnError, once a failed StepResult
\* is recorded no step is started and no further result is waited for.
ParallelFailFastAborts ==
    [][(options.parallel /\ ~options.continueOnError /\ FailedIds # {})
          => (started' = started /\ completedSteps' = completedSteps)]_vars

\* C8: no error of a run is raised inside a completion callback, where
\* nothing handles it.
NoUnhandledCallbackError ==
    unhandled = <<>>

\* C9: a step whose start check found the timeout exceeded gets no entry in
\* the result map, and the returned WorkflowResult lists a timeout error.
TimeoutAbortsRun ==
    /\ \A id \in DOMAIN completedSteps :
           completedSteps[id].error # "Workflow execution timeout"
    /\ (returned /\ timeoutSeen) => TimeoutError \in Range(errors)

\* C10: once a timeout has been detected the step executor is invoked for
\* no further step; a run that met a timeout returns success = false, and
\* every step whose executor was invoked is recorded with its real outcome.
NoNewWorkAfterTimeout ==
    /\ [][timeoutSeen => invoked' = invoked]_vars
    /\ [](returned =>
             /\ timeoutSeen => ~success
             /\ \A id \in invoked :
                    /\ id \in DOMAIN completedSteps
                    /\ completedSteps[id] = RealOutcome(Find(steps, id)))

\* C10 witness: a timeout has been detected while a step whose executor was
\* invoked earlier is still in flight.
TimeoutWhileStepInFlight ==
    /\ timeoutSeen
    /\ \E id \in DOMAIN executing :
           /\ id \in invoked
           /\ executing[id].error # "Workflow execution timeout"

\* C11: a dependency that is not met is never a run-level error, and with
\* continueOnError a sequential run gives every declared step an outcome in
\* the result map.
DependencyNotMetIsStepFailure ==
    /\ \A i \in 1..Len(errors) : errors[i].message # "Dependencies not met for step"
    /\ (returned /\ ~options.parallel /\ options.continueOnError)
          => DOMAIN completedSteps = StepIds(steps)

UnknownTypeFailures ==
    { id \in DOMAIN completedSteps : completedSteps[id].error = "Unknown step type" }

\* C13: a step of unknown type whose executor was invoked is recorded as a
\* failed StepResult carrying the unknown-type error, and what follows is
\* decided by continueOnError alone: without it no step is started once
\* that failure is recorded.
UnknownTypeIsStepFailure ==
    /\ [](\A id \in invoked \cap DOMAIN completedSteps :
             Find(steps, id).type \notin KnownTypes
                => (~completedSteps[id].success
                    /\ completedSteps[id].error = "Unknown step type"))
    /\ [][(UnknownTypeFailures # {} /\ ~options.continueOnError)
             => started' = started]_vars

WithoutSuccessfulDependencies ==
    { id \in StepIds(steps) :
        \E dep \in DepsOf(steps, id) :
            dep \notin DOMAIN completedSteps \/ ~completedSteps[dep].success }

\* C14: a returned parallel run in which some step has a dependency without
\* a successful StepResult carries the deadlock error, is overall-failed,
\* and has no StepResult for any such step.
BlockedStepsEndInDeadlock ==
    (returned /\ options.parallel /\ WithoutSuccessfulDependencies # {})
    => /\ DeadlockError \in Range(errors)
       /\ ~success
       /\ WithoutSuccessfulDependencies \cap DOMAIN completedSteps = {}
       /\ WithoutSuccessfulDependencies \cap Range(started) = {}
       /\ DOMAIN executing = {}

\* C14 witness: a parallel run of the cycle, of the dangling dependency or
\* behind a failed step has returned.
BlockedRunReturned ==
    /\ returned
    /\ options.parallel
    /\ WithoutSuccessfulDependencies # {}
    /\ FailedIds # {}

NoRepeat(seq) == \A i, j \in 1..Len(seq) : seq[i] = seq[j] => i = j

\* every entry of the result map of call r was written by call r
OwnResultsOnly(r) ==
    \A id \in DOMAIN r.completedSteps : r.writer[id] = r.run

\* C22: the result map of a call of execute holds only StepResults written
\* by that call, a step is started only on dependencies recorded by its own
\* call, a call starts from an empty result map and errors list, and
\* nothing changes the variables of a call while another call runs.
RunsAreIndependent ==
    /\ [](OwnResultsOnly(ThisRun) /\ (suspended # NoRun => OwnResultsOnly(suspended)))
    /\ [][/\ (run' = run /\ Len(started') > Len(started)) =>
              \A dep \in DepsOf(steps, started'[Len(started')]) :
                  /\ dep \in DOMAIN completedSteps
                  /\ completedSteps[dep].success
                  /\ writer[dep] = run
          /\ (suspended = NoRun /\ suspended' # NoRun) =>
              (completedSteps' = EmptyMap /\ errors' = <<>> /\ started' = <<>>
               /\ now' = 0 /\ suspended' = ThisRun)
          /\ (suspended # NoRun /\ run' = run) => suspended' = suspended
          /\ (suspended # NoRun /\ run' # run) =>
              (suspended' = ThisRun /\ ThisRun' = suspended)]_vars

\* C22 witness: two calls on the same workflow are under way at once, each
\* with a recorded result and the second call with a step in flight.
TwoRunsInFlight ==
    /\ suspended # NoRun
    /\ run = 2
    /\ pc = "await"
    /\ suspended.pc \in {"seqAwait", "await"}
    /\ steps = suspended.steps
    /\ DOMAIN completedSteps # {}
    /\ DOMAIN suspended.completedSteps # {}
    /\ DOMAIN completedSteps # DOMAIN suspended.completedSteps

\* C23: when execute has returned, the result map has an entry for exactly
\* the steps that were started, no step is in flight, and from then on the
\* map does not change.
ReturnedMapIsStartedSteps ==
    /\ [](returned =>
             /\ DOMAIN completedSteps = Range(started)
             /\ DOMAIN executing = {}
             /\ awaited = <<>>)
    /\ [][returned => (returned' /\ completedSteps' = completedSteps)]_vars

\* C23 witness: a returned parallel run that left a step without entry
\* because it was never started.
ReturnedWithUnstartedStep ==
    /\ returned
    /\ options.parallel
    /\ Range(started) # {}
    /\ StepIds(steps) \ Range(started) # {}
    /\ DOMAIN completedSteps = Range(started)

\* C24: the deadlock error is raised only when no step is in flight, some
\* step is pending and no pending step has all its dependencies recorded
\* as successful.
DeadlockOnlyWhenNothingReady ==
    [][(DeadlockError \notin Range(errors) /\ DeadlockError \in Range(errors'))
          => /\ DOMAIN executing = {}
             /\ pending # {}
             /\ \A id \in pending : ~dependenciesMet(Find(steps, id), completedSteps)]_vars

\* C30: in a run on distinct step ids no step is started twice, the
\* executor is invoked only for started steps, and an entry of the result
\* map, once written, is neither removed nor changed.
EachStepRunsOnce ==
    /\ [](NoRepeat(IdSeq(steps)) =>
             /\ NoRepeat(started)
             /\ invoked \subseteq Range(started)
             /\ NoRepeat(completedOrder)
             /\ Range(completedOrder) = DOMAIN completedSteps)
    /\ [][NoRepeat(IdSeq(steps)) =>
             \A id \in DOMAIN completedSteps :
                 /\ id \in DOMAIN completedSteps'
                 /\ completedSteps'[id] = completedSteps[id]]_vars

\* C30 witness: a returned parallel run of the diamond in which every
\* step was started and recorded.
DiamondRunReturned ==
    /\ returned
    /\ options.parallel
    /\ ShapeOf(steps) = Diamond
    /\ Len(started) = 4
    /\ Len(completedOrder) = 4

\* the pending steps whose dependencies are all recorded as successful
PendingReady ==
    { id \in pending : dependenciesMet(Find(steps, id), completedSteps) }

\* C31: when the parallel loop begins to wait for a completion, and until
\* one arrives, no pending step has all its dependencies recorded as
\* successful: a round starts every ready step before it waits.
AllReadyStartedBeforeWaiting ==
    /\ []((options.parallel /\ pc = "await" /\ ~settled) => PendingReady = {})
    /\ [][(pc # "await" /\ pc' = "await") => PendingReady' = {}]_vars

\* C31 witness: the engine waits with the three independent steps in flight.
ThreeStepsInFlight ==
    /\ options.parallel
    /\ pc = "await"
    /\ ShapeOf(steps) = Independent
    /\ Cardinality(DOMAIN executing) = 3

\* C32: in a parallel run on distinct step ids every step id is in exactly
\* one of pending, executing and the result map, and an id only moves from
\* pending to executing and from executing to the result map.
ParallelBookkeepingIsPartition ==
    /\ []((options.parallel /\ pc # "new" /\ NoRepeat(IdSeq(steps))) =>
             /\ pending \cup DOMAIN executing \cup DOMAIN completedSteps = StepIds(steps)
             /\ pending \cap DOMAIN executing = {}
             /\ pending \cap DOMAIN completedSteps = {}
             /\ DOMAIN executing \cap DOMAIN completedSteps = {})
    /\ [][(options.parallel /\ pc # "new") =>
             /\ pending' \subseteq pending
             /\ (DOMAIN executing') \ (DOMAIN executing) \subseteq pending
             /\ (DOMAIN completedSteps') \ (DOMAIN completedSteps) \subseteq DOMAIN executing
             /\ DOMAIN completedSteps \subseteq DOMAIN completedSteps']_vars

\* C32 witness: in a parallel run of the diamond D is pending, C is in
\* flight and A and B are recorded.
DiamondInThreeParts ==
    /\ options.parallel
    /\ ShapeOf(steps) = Diamond
    /\ pending = {"D"}
    /\ DOMAIN executing = {"C"}
    /\ DOMAIN completedSteps = {"A", "B"}

\* C33: when every started step completes, a parallel run returns, with
\* every step recorded or with the deadlock error; a loop iteration ends
\* having started a step, consumed a completion or raised the deadlock error.
ParallelRunTerminates ==
    /\ (options.parallel /\ pc # "new") ~> returned
    /\ []((returned /\ options.parallel) =>
             (DOMAIN completedSteps = StepIds(steps) \/ DeadlockError \in Range(errors)))
    /\ [][(options.parallel /\ pc \in {"start", "await"} /\ pc' \in {"loop", "finish"}) =>
             \/ readyLength > 0
             \/ pc = "await" /\ settled
             \/ DeadlockError \in Range(errors')]_vars

\* C33 witness: the parallel run of the cycle has returned with the
\* deadlock error and nothing recorded.
CycleRunReturned ==
    /\ returned
    /\ options.parallel
    /\ ShapeOf(steps) = Cycle
    /\ DeadlockError \in Range(errors)
    /\ DOMAIN completedSteps = {}

ErrorKinds(errs) == { errs[i].message : i \in 1..Len(errs) }

\* C34: two returned parallel runs of one workflow with the same options
\* have the same success flag, the same kinds of run-level error and the
\* same step ids in their result maps, whatever the completion orders.
ParallelOutcomeIgnoresCompletionOrder ==
    (/\ suspended # NoRun
     /\ returned
     /\ suspended.returned
     /\ options.parallel
     /\ options = suspended.options
     /\ steps = suspended.steps)
    => /\ success = suspended.success
       /\ ErrorKinds(errors) = ErrorKinds(suspended.errors)
       /\ DOMAIN completedSteps = DOMAIN suspended.completedSteps

\* the dependencies of the i-th step are ids of steps declared before it
DeclaredEarlier(wf, i) ==
    Range(wf[i].dependencies) \subseteq { wf[j].id : j \in 1..(i - 1) }

\* the first step declared before one of its dependencies, 0 when there is none
FirstOutOfOrder(wf) ==
    IF \A i \in 1..Len(wf) : DeclaredEarlier(wf, i) THEN 0
    ELSE CHOOSE i \in 1..Len(wf) :
            ~DeclaredEarlier(wf, i) /\ \A j \in 1..(i - 1) : DeclaredEarlier(wf, j)

\* the steps of a run as the Workflow handed to FlowValidator
AsWorkflow(wf) ==
    WorkflowOf([i \in 1..Len(wf) |-> FullStep(wf[i].id, wf[i].type, wf[i].dependencies)])

\* C35: a returned sequential run, without timeout, of a workflow that
\* canExecute accepts is successful with every step recorded when every
\* dependency is declared before its dependent; otherwise it carries the
\* dependencies-not-met error of the first step declared before one of
\* its dependencies and records exactly the steps before that one.
SequentialSucceedsIffDeclaredInOrder ==
    (/\ returned
     /\ ~options.parallel
     /\ ~timeoutSeen
     /\ canExecute(AsWorkflow(steps)).executable)
    => LET k == FirstOutOfOrder(steps) IN
       /\ success <=> (k = 0)
       /\ FailedIds = {}
       /\ IF k = 0
          THEN errors = <<>> /\ completedOrder = IdSeq(steps)
          ELSE /\ errors = <<DepsNotMetError(steps[k].id)>>
               /\ completedOrder = SubSeq(IdSeq(steps), 1, k - 1)

\* C35 witness: the sequential run of B (depending on A) declared before
\* A has returned.
ForwardRunAborted ==
    /\ returned
    /\ ~options.parallel
    /\ ~timeoutSeen
    /\ ShapeOf(steps) = Forward
    /\ canExecute(AsWorkflow(steps)).executable
    /\ ~success

\* C37: a returned sequential run, without timeout, on distinct step ids
\* of known types has the success flag that Workflow.execute computes on
\* the same steps, whatever continueOnError is.
BothExecutionsAgreeOnSuccess ==
    (/\ returned
     /\ ~options.parallel
     /\ ~timeoutSeen
     /\ NoRepeat(IdSeq(steps))
     /\ AllTypesKnown(steps))
    => (success <=> workflowExecute(steps).success)

\* C37 witness: with continueOnError the sequential run of B (depending on
\* A) declared before A has returned, and both executions fail.
ForwardRunBothFail ==
    /\ returned
    /\ ~options.parallel
    /\ options.continueOnError
    /\ ~timeoutSeen
    /\ ShapeOf(steps) = Forward
    /\ AllTypesKnown(steps)
    /\ ~success
    /\ ~workflowExecute(steps).success

----------------------------------------------------------------------------
(* Properties of FlowValidator *)

ErrorCodes(v) == { v.errors[i].code : i \in 1..Len(v.errors) }

\* C15: for a workflow with zero steps validate returns valid = false with
\* a NO_STEPS error and canExecute returns executable = false.
NoStepsRejected ==
    Len(workflow.steps) = 0 =>
        /\ vpc \in {"validated", "checked"} =>
              (~validation.valid /\ "NO_STEPS" \in ErrorCodes(validation))
        /\ vpc = "checked" => ~executable.executable

\* C15 witness: both calls have returned for the workflow without steps
\* and without any other defect.
NoStepsChecked ==
    /\ vpc = "checked"
    /\ workflow = WorkflowOf(<<>>)

\* the entries (step index, position) of the dependency lists that name depId
\* in steps whose id is id
DepEntries(stepList, id, depId) ==
    { e \in UNION { { <<i, j>> : j \in 1..Len(stepList[i].dependencies) } :
                     i \in 1..Len(stepList) } :
        /\ stepList[e[1]].id = id
        /\ stepList[e[1]].dependencies[e[2]] = depId }

InvalidDependencyErrors(v, id, depId) ==
    { i \in 1..Len(v.errors) :
        /\ v.errors[i].code = "INVALID_DEPENDENCY"
        /\ v.errors[i].stepId = id
        /\ v.errors[i].detail = <<depId>> }

AllDepIds(stepList) == UNION { Range(stepList[i].dependencies) : i \in 1..Len(stepList) }

\* C16: validate lists one INVALID_DEPENDENCY error, with the step's id,
\* per dependency entry naming an id that no step has, and is then not
\* valid; an entry naming the id of a step produces none.
DanglingDependenciesReported ==
    vpc \in {"validated", "checked"} =>
        \A id \in StepIds(workflow.steps) :
            \A depId \in AllDepIds(workflow.steps) \cup StepIds(workflow.steps) :
                IF depId \in StepIds(workflow.steps)
                THEN InvalidDependencyErrors(validation, id, depId) = {}
                ELSE /\ Cardinality(InvalidDependencyErrors(validation, id, depId))
                           = Cardinality(DepEntries(workflow.steps, id, depId))
                     /\ DepEntries(workflow.steps, id, depId) # {} => ~validation.valid

\* C16 witness: a validated workflow in which one step lists twice an id
\* that no step has, and another dependency that exists.
TwoDanglingEntriesValidated ==
    /\ vpc = "validated"
    /\ \E i \in 1..Len(workflow.steps) :
           LET deps == workflow.steps[i].dependencies IN
           /\ Len(deps) = 2
           /\ deps[1] = deps[2]
           /\ deps[1] \notin StepIds(workflow.steps)
    /\ \E i \in 1..Len(workflow.steps) :
           \E dep \in Range(workflow.steps[i].dependencies) : dep \in StepIds(workflow.steps)

CircularDepsErrors(v) ==
    { i \in 1..Len(v.errors) : v.errors[i].code = "CIRCULAR_DEPS" }

\* three steps, each with one dependency, that form one cycle through all of them
IsThreeCycle(stepList) ==
    /\ Len(stepList) = 3
    /\ Cardinality(StepIds(stepList)) = 3
    /\ \A i \in 1..3 : Len(stepList[i].dependencies) = 1
    /\ \A id \in StepIds(stepList) :
           DepClosure(stepList, DepsOf(stepList, id), 3) = StepIds(stepList)

\* C17: validate reports CIRCULAR_DEPS exactly when the dependency graph
\* has a cycle (self-loops included); for three steps forming one cycle the
\* first reported cycle contains the three ids.
CircularDepsIffCycle ==
    vpc \in {"validated", "checked"} =>
        /\ (CircularDepsErrors(validation) # {}) <=> ~Acyclic(workflow.steps)
        /\ IsThreeCycle(workflow.steps) =>
              \A i \in CircularDepsErrors(validation) :
                  Range(validation.errors[i].detail[1]) = StepIds(workflow.steps)

\* C17 witness: the cycle of three steps has been validated.
ThreeCycleValidated ==
    /\ vpc = "validated"
    /\ IsThreeCycle(workflow.steps)
    /\ CircularDepsErrors(validation) # {}

\* C18: canExecute answers executable = true exactly when validate reported
\* valid, there is at least one step and every step type is in the closed
\* set; otherwise it answers executable = false with a non-empty reason.
CanExecuteIffValidAndTyped ==
    vpc = "checked" =>
        /\ executable.executable <=>
              (/\ validation.valid
               /\ Len(workflow.steps) >= 1
               /\ \A i \in 1..Len(workflow.steps) :
                      workflow.steps[i].type \in {"analysis", "fix", "test", "deploy", "custom"})
        /\ ~executable.executable =>
              (executable.reason # Undefined /\ executable.reason # "")

\* C18 witness: canExecute has refused a valid workflow for its step type.
UnknownTypeRefused ==
    /\ vpc = "checked"
    /\ validation.valid
    /\ ~executable.executable
    /\ executable.reason = "Invalid step type"

\* the ids of the list form a loop along dependency edges
IsLoop(stepList, cycle) ==
    /\ Len(cycle) > 0
    /\ \A k \in 1..Len(cycle) :
           cycle[(k % Len(cycle)) + 1] \in DepsOf(stepList, cycle[k])

\* C25: every cycle listed in the CIRCULAR_DEPS error of validate is a loop
\* of step ids: each id has the next one among its dependencies and the last
\* has the first.
ReportedCyclesAreLoops ==
    vpc \in {"validated", "checked"} =>
        \A i \in CircularDepsErrors(validation) :
            \A k \in 1..Len(validation.errors[i].detail) :
                IsLoop(workflow.steps, validation.errors[i].detail[k])

WarningCodes(v) == { v.warnings[i].code : i \in 1..Len(v.warnings) }

\* C27: validate returns valid exactly when its errors list is empty, the
\* list holds the error of every structural defect the workflow has, and a
\* NO_CONFIG warning does not make the workflow invalid.
ValidIffNoErrorAllListed ==
    vpc \in {"validated", "checked"} =>
        LET codes == ErrorCodes(validation)
            st    == workflow.steps
        IN  /\ validation.valid <=> (Len(validation.errors) = 0)
            /\ ("MISSING_ID" \in codes) <=> (workflow.id = "")
            /\ ("MISSING_NAME" \in codes) <=> (Trim(workflow.name) = "")
            /\ ("NO_STEPS" \in codes) <=> (Len(st) = 0)
            /\ ("MISSING_STEP_ID" \in codes) <=> (\E i \in 1..Len(st) : st[i].id = "")
            /\ ("MISSING_STEP_NAME" \in codes) <=> (\E i \in 1..Len(st) : Trim(st[i].name) = "")
            /\ ("MISSING_STEP_TYPE" \in codes) <=> (\E i \in 1..Len(st) : st[i].type = "")
            /\ ("INVALID_DEPENDENCY" \in codes) <=> ~(AllDepIds(st) \subseteq StepIds(st))
            /\ ("CIRCULAR_DEPS" \in codes) <=> ~Acyclic(st)
            /\ ("NO_CONFIG" \in WarningCodes(validation))
                   <=> (\E i \in 1..Len(st) : st[i].config = Undefined)
            /\ codes \subseteq {"MISSING_ID", "MISSING_NAME", "NO_STEPS", "MISSING_STEP_ID",
                                "MISSING_STEP_NAME", "MISSING_STEP_TYPE",
                                "INVALID_DEPENDENCY", "CIRCULAR_DEPS"}

\* C27 witness: a validated workflow whose first step has no name, a
\* dependency on an id no step has and a place on a cycle.
SeveralErrorsListedTogether ==
    /\ vpc = "validated"
    /\ {"MISSING_STEP_NAME", "INVALID_DEPENDENCY", "CIRCULAR_DEPS"}
          \subseteq ErrorCodes(validation)
    /\ Len(workflow.steps) > 0
    /\ Len(DependencyErrors(workflow.steps[1], workflow.steps, 1)) > 0

----------------------------------------------------------------------------
(* Properties of WorkflowBuilder *)

BuiltinAdders == {"addAnalysisStep", "addAutoFixStep", "addTestStep", "addDeployStep"}

\* C19: the step added by a built-in adder depends on exactly the step that
\* was last in the builder, and on nothing when the builder was empty.
BuiltinAdderChainsOnPrevious ==
    lastAdded.adder \in BuiltinAdders =>
        BuilderSteps[Len(BuilderSteps)].dependencies =
            (IF Len(lastAdded.found) = 0 THEN <<>>
             ELSE <<lastAdded.found[Len(lastAdded.found)].id>>)

\* what a caller reads from a built workflow
WorkflowView(h, w) ==
    [id |-> w.id, name |-> w.name, description |-> w.description, steps |-> h[w.steps]]

\* C20: no builder call changes the steps, name or description of a
\* workflow already built, and a workflow just built holds the steps, name
\* and description the builder has at that moment.
BuiltWorkflowIsSnapshot ==
    [][/\ \A i \in 1..Len(built) :
              WorkflowView(heap', built'[i]) = WorkflowView(heap, built[i])
       /\ Len(built') > Len(built) =>
              WorkflowView(heap', built'[Len(built')]) =
                  [id |-> builder.workflowId, name |-> builder.workflowName,
                   description |-> builder.workflowDescription, steps |-> BuilderSteps]]_vars

\* C20 witness: two workflows built from one builder, with steps added and
\* the description set between the two build() calls.
TwoSnapshotsDiffer ==
    /\ Len(built) = 2
    /\ Len(heap[built[1].steps]) < Len(heap[built[2].steps])
    /\ built[1].description # built[2].description
    /\ Len(heap[built[2].steps]) < Len(BuilderSteps)

\* what builder.build() returns in the current state, as a caller reads it
BuiltNow ==
    WorkflowView(build(builder, heap).heap, build(builder, heap).workflow)

CycleMessage == "Workflow contains circular dependencies"

\* C21: on every builder state with a non-blank workflow name,
\* WorkflowBuilder.validate().valid equals the valid of FlowValidator.validate
\* applied to the workflow that build() returns.
PreflightAgreesWithValidator ==
    (preflight.called /\ Trim(builder.workflowName) # "")
        => (preflight.valid <=> validate(BuiltNow).valid)

\* C26: the depth-first traversals of WorkflowBuilder.validate and of
\* FlowValidator.validate end, and each has entered every id at most once
\* and only ids of steps or of dependency entries.
CycleDetectionEntersEachIdOnce ==
    preflight.called =>
        /\ NoRepeat(builderCycleSearch(BuilderSteps).st.entered)
        /\ NoRepeat(validatorCycleSearch(BuiltNow.steps).entered)
        /\ Range(builderCycleSearch(BuilderSteps).st.entered)
              \subseteq StepIds(BuilderSteps) \cup AllDepIds(BuilderSteps)
        /\ Range(validatorCycleSearch(BuiltNow.steps).entered)
              \subseteq StepIds(BuilderSteps) \cup AllDepIds(BuilderSteps)
        /\ StepIds(BuilderSteps) \subseteq Range(validatorCycleSearch(BuiltNow.steps).entered)

\* C26 witness: validate() was called on a builder that holds a dependency
\* on an id no step has and two steps depending on each other, and the
\* traversal entered all four ids.
MutualAndDanglingTraversed ==
    /\ preflight.called
    /\ ~preflight.valid
    /\ Len(builderCycleSearch(BuilderSteps).st.entered) = 4
    /\ \E i, j \in 1..Len(BuilderSteps) :
           /\ i # j
           /\ BuilderSteps[j].id \in Range(BuilderSteps[i].dependencies)
           /\ BuilderSteps[i].id \in Range(BuilderSteps[j].dependencies)
    /\ AllDepIds(BuilderSteps) \ StepIds(BuilderSteps) # {}

\* C28: WorkflowBuilder.validate reports the circular-dependency message
\* exactly when FlowValidator.validate of the built workflow reports
\* CIRCULAR_DEPS.
BuilderAndValidatorAgreeOnCycles ==
    preflight.called =>
        ((CycleMessage \in Range(preflight.errors))
            <=> (CircularDepsErrors(validate(BuiltNow)) # {}))

\* C28 witness: validate() has reported a cycle through a dependency on a
\* step added later.
ForwardCyclePreflighted ==
    /\ preflight.called
    /\ CycleMessage \in Range(preflight.errors)
    /\ \E i \in 1..Len(BuilderSteps) :
           \E j \in (i + 1)..Len(BuilderSteps) :
               BuilderSteps[j].id \in Range(BuilderSteps[i].dependencies)

\* C29: the i-th step of the builder has id step_i, and so has the i-th
\* step of every workflow built from it; the ids of one step list are
\* pairwise distinct.
StepIdsNumberedInOrder ==
    /\ \A i \in 1..Len(BuilderSteps) : BuilderSteps[i].id = StepId(i)
    /\ NoRepeat(IdSeq(BuilderSteps))
    /\ \A k \in 1..Len(built) :
           /\ \A i \in 1..Len(heap[built[k].steps]) : heap[built[k].steps][i].id = StepId(i)
           /\ NoRepeat(IdSeq(heap[built[k].steps]))

\* C29 witness: three steps were added by three different adders, and a
\* workflow was built before the last one.
ThreeAddersThenBuilt ==
    /\ Len(BuilderSteps) = 3
    /\ Cardinality({ BuilderSteps[i].type : i \in 1..3 }) = 3
    /\ \E k \in 1..Len(built) : Len(heap[built[k].steps]) = 2

\* the steps of the workflow whose execute() was called last
ExecutedSteps == heap[built[outcome.workflow].steps]

\* C36: Workflow.execute() records one StepResult per step, in declaration
\* order; a step is recorded as failed, and not handed to executeStep,
\* exactly when one of its dependencies has no successful result before
\* it; errors has one entry per failed step and success holds exactly when
\* every step succeeded.
WorkflowExecuteRecordsEveryStep ==
    outcome.called =>
        LET wf == ExecutedSteps
            r == outcome.result
            Succeeded == { id \in DOMAIN r.stepResults : r.stepResults[id].success }
        IN /\ r.order = IdSeq(wf)
           /\ DOMAIN r.stepResults = StepIds(wf)
           /\ \A i \in 1..Len(wf) :
                 (wf[i].id \in Succeeded) <=>
                    \A d \in Range(wf[i].dependencies) :
                       \E j \in 1..(i - 1) : wf[j].id = d /\ d \in Succeeded
           /\ r.executed = SelectSeq(IdSeq(wf), LAMBDA id : id \in Succeeded)
           /\ Len(r.errors) = Cardinality(StepIds(wf) \ Succeeded)
           /\ r.success <=> (Succeeded = StepIds(wf))

\* C36 witness: execute() returned for a workflow of three steps where one
\* step ran and two were recorded as failed, the second of them because it
\* depends on the first.
CascadeExecuted ==
    /\ outcome.called
    /\ Len(ExecutedSteps) = 3
    /\ Len(outcome.result.executed) = 1
    /\ Len(outcome.result.errors) = 2
    /\ \E i, j \in 1..3 :
          /\ i < j
          /\ ~outcome.result.stepResults[ExecutedSteps[i].id].success
          /\ ExecutedSteps[i].id \in Range(ExecutedSteps[j].dependencies)
          /\ ~outcome.result.stepResults[ExecutedSteps[j].id].success

\* the dependencies of the i-th step are ids of steps added before it
AddedEarlier(stepList, i) ==
    Range(stepList[i].dependencies) \subseteq { stepList[j].id : j \in 1..(i - 1) }

\* C38: every dependency of a non-custom step of the builder names a step
\* added earlier; a builder holding no custom step has no dangling
\* dependency, no cycle, and every dependency before its dependent.
BuiltInStepsDependOnEarlierSteps ==
    \A stepList \in {BuilderSteps} \cup { heap[built[n].steps] : n \in 1..Len(built) } :
       /\ \A i \in 1..Len(stepList) :
             stepList[i].type # "custom" => AddedEarlier(stepList, i)
       /\ (\A i \in 1..Len(stepList) : stepList[i].type # "custom")
             => /\ \A i \in 1..Len(stepList) : AddedEarlier(stepList, i)
                /\ NoDanglingDependency(stepList)
                /\ Acyclic(stepList)
                /\ ~builderCycleSearch(stepList).found

\* C38 witness: a built-in step chained on the previous step follows a
\* custom step with a forward dependency.
ChainedAfterCustom ==
    /\ Len(BuilderSteps) = 3
    /\ BuilderSteps[1].type = "custom"
    /\ ~AddedEarlier(BuilderSteps, 1)
    /\ BuilderSteps[2].type # "custom"
    /\ BuilderSteps[2].dependencies = <<BuilderSteps[1].id>>
    /\ BuilderSteps[3].type # "custom"
    /\ BuilderSteps[3].dependencies = <<BuilderSteps[2].id>>

====
